---- MODULE Spec2Model ----
(***************************************************************************)
(* cf-management.py: the Cloudflare zone lister, the per-account A-record  *)
(* export, the threaded export orchestrator, the two-phase domain lookup   *)
(* and the main dispatch that ties them to the two files results.txt (the  *)
(* table) and domains.txt (the audit log).                                 *)
(*                                                                         *)
(* Text is a sequence of tokens (strings); ";" " " and "\n" are tokens of  *)
(* their own, so formatting a row and parsing it back are two different    *)
(* computations.  A file is the sequence of its lines, each line ending    *)
(* with the "\n" token, as `for line in f` yields them.                    *)
(***************************************************************************)
EXTENDS Integers, Sequences, FiniteSets, Bags, TLC

VARIABLES
    api_configs,    \* account names in configuration order (json.load keeps it)
    remotePages,    \* remote: account -> the responses of /zones?page=1,2,...
    remoteRecords,  \* remote: zone id -> the response of /zones/{id}/dns_records
    table,          \* results.txt: [exists, lines]
    audit,          \* domains.txt: the lines appended so far
    pc,             \* position of main: start, menu, export, exit
    interactive,    \* TRUE in the menu loop, FALSE with -d / -u
    ops,            \* operations started in this run
    workers,        \* account -> its process_domains_for_account task
    all_results,    \* export_dns_records' all_results
    yielded,        \* accounts whose future as_completed has yielded
    lookup,         \* the last get_domain_ip call: domain, value, requests, file read
    written         \* the tables the exports of this run wrote, in order

vars == <<api_configs, remotePages, remoteRecords, table, audit, pc, interactive,
          ops, workers, all_results, yielded, lookup, written>>

---------------------------------------------------------------------------
(* Bounds *)

MaxPages == 2
MaxRecords == 2
MaxRows == 2
MaxOps == 2

---------------------------------------------------------------------------
(* Text *)

Sep == ";"
NL == "\n"

LowerTok(t) ==
    CASE t = "Example" -> "example"
      [] t = "Domain" -> "domain"
      [] t = "Sub" -> "sub"
      [] OTHER -> t

\* str.lower()
Lower(s) == [i \in 1..Len(s) |-> LowerTok(s[i])]

IsSpace(t) == t \in {" ", NL}

RECURSIVE LStrip(_)
LStrip(s) == IF s # <<>> /\ IsSpace(Head(s)) THEN LStrip(Tail(s)) ELSE s

RECURSIVE RStrip(_)
RStrip(s) ==
    IF s # <<>> /\ IsSpace(s[Len(s)]) THEN RStrip(SubSeq(s, 1, Len(s) - 1)) ELSE s

\* str.strip()
Strip(s) == RStrip(LStrip(s))

\* str.split(sep)
RECURSIVE Split(_, _)
Split(s, sep) ==
    IF \E i \in 1..Len(s) : s[i] = sep
    THEN LET i == CHOOSE k \in 1..Len(s) :
                      s[k] = sep /\ \A j \in 1..(k - 1) : s[j] # sep
         IN  <<SubSeq(s, 1, i - 1)>> \o Split(SubSeq(s, i + 1, Len(s)), sep)
    ELSE <<s>>

\* Python's None against a str value
None == [none |-> TRUE, str |-> <<>>]
Str(s) == [none |-> FALSE, str |-> s]

\* `if ip:`
Truthy(v) == ~v.none /\ v.str # <<>>

---------------------------------------------------------------------------
(* The names, addresses and records the remote side is drawn from *)

ExampleCom == <<"example", ".", "com">>
ExampleComUpper == <<"Example", ".", "com">>
SubExampleCom == <<"sub", ".", "example", ".", "com">>
At == <<"@">>

Ip1 == <<"1.1.1.1">>
Ip2 == <<"2.2.2.2">>

\* the text of an account name
AccountText(account_name) == <<account_name>>

Zone(id, name) == [id |-> id, name |-> name]

ZonesOf(account_name) ==
    CASE account_name = "A1" ->
             {Zone("a1", ExampleCom), Zone("a2", SubExampleCom)}
      [] account_name = "B2" ->
             {Zone("b1", ExampleCom), Zone("b2", ExampleCom)}

ZoneIds == {"a1", "a2", "b1", "b2"}

\* the word the header line starts with, as a query
DomainWord == <<"domain">>

Queries == {ExampleCom, ExampleComUpper, SubExampleCom, DomainWord}

\* result_info without the total_pages key
NoInfo == [count |-> 0]

\* result_info with and without the total_pages key
ResultInfos == {NoInfo} \cup {[total_pages |-> n] : n \in 0..MaxPages}

PageOk(zones, info) ==
    [status |-> "ok", success |-> TRUE, result |-> zones, result_info |-> info]

\* success is false; the result the response carries is not to be used
PageFailed ==
    [status |-> "ok", success |-> FALSE, result |-> <<Zone("a1", ExampleCom)>>,
     result_info |-> NoInfo]

\* requests.get or raise_for_status raised a RequestException
PageError ==
    [status |-> "error", success |-> FALSE, result |-> <<>>, result_info |-> NoInfo]

DnsRecord(type, name, content) == [type |-> type, name |-> name, content |-> content]

RecordsOk(records) ==
    [status |-> "ok", success |-> TRUE, result |-> records]

\* success is false; the result the response carries is not to be used
RecordsFailed ==
    [status |-> "ok", success |-> FALSE,
     result |-> <<DnsRecord("A", At, <<"9.9.9.9">>)>>]

RecordsError == [status |-> "error", success |-> FALSE, result |-> <<>>]

---------------------------------------------------------------------------
(* The requests a call sends, in the order it sends them *)

NoZone == Zone("", <<>>)

ZonesRequest(account_name, page) ==
    [url |-> "zones", account |-> account_name, page |-> page, zone |-> NoZone]

RecordsRequest(account_name, zone) ==
    [url |-> "dns_records", account |-> account_name, page |-> 0, zone |-> zone]

---------------------------------------------------------------------------
(* get_all_zones *)

\* requests.get(url) for page `page`; a page past the responses the remote side
\* holds is not answered
PageResponse(api_token, page) ==
    IF page \in DOMAIN remotePages[api_token]
    THEN remotePages[api_token][page]
    ELSE PageError

\* data['result_info'].get('total_pages', 0)
TotalPages(result_info) ==
    IF "total_pages" \in DOMAIN result_info THEN result_info.total_pages ELSE 0

\* faulty variant: the comparison is strict
LastPageStrict(page, total_pages) == page > total_pages

\* if page >= total_pages: break
LastPage(page, total_pages) == page >= total_pages

\* the while True loop, entered with `page` and `all_zones`
RECURSIVE ZonesLoop(_, _, _, _)
ZonesLoop(api_token, page, all_zones, requests) ==
    LET response == PageResponse(api_token, page)
        sent == Append(requests, ZonesRequest(api_token, page))
    IN  IF response.status = "error"
        THEN [zones |-> all_zones, requests |-> sent]
        ELSE IF response.success
             THEN LET extended == all_zones \o response.result
                  IN  IF LastPage(page, TotalPages(response.result_info))
                      THEN [zones |-> extended, requests |-> sent]
                      ELSE ZonesLoop(api_token, page + 1, extended, sent)
             ELSE [zones |-> all_zones, requests |-> sent]

get_all_zones(api_token) == ZonesLoop(api_token, 1, <<>>, <<>>)

---------------------------------------------------------------------------
(* process_domains_for_account *)

\* f"{domain};{record['content']};{account_name}\n"
ResultLine(domain, content, account_name) ==
    domain \o <<Sep>> \o content \o <<Sep>> \o AccountText(account_name) \o <<NL>>

\* faulty variant: the name of the record is not looked at
ExportFilterAnyName(record, domain) == record.type = "A"

\* record['type'] == 'A' and (record['name'] == '@' or record['name'] == domain)
ExportFilter(record, domain) ==
    record.type = "A" /\ (record.name = At \/ record.name = domain)

\* for record in records: ... account_results.append(result)
RECURSIVE AppendApexRows(_, _, _, _)
AppendApexRows(account_results, domain, records, account_name) ==
    IF records = <<>>
    THEN account_results
    ELSE AppendApexRows(
             IF ExportFilter(Head(records), domain)
             THEN Append(account_results,
                         ResultLine(domain, Head(records).content, account_name))
             ELSE account_results,
             domain, Tail(records), account_name)

\* the response data of the dns_records request counts only when no
\* RequestException was raised and data['success'] holds
RecordsUsable(response) == response.status = "ok" /\ response.success

\* one iteration of `for zone in zones`
ProcessZone(account_results, zone, account_name) ==
    LET response == remoteRecords[zone.id]
    IN  IF RecordsUsable(response)
        THEN AppendApexRows(account_results, zone.name, response.result, account_name)
        ELSE account_results

---------------------------------------------------------------------------
(* get_domain_ip *)

\* f"{domain} - {ip} (Account: {account})" (the source's literal is Cyrillic)
Found(domain, ip, account) ==
    domain \o <<" - ">> \o ip \o <<" (Account: ">> \o account \o <<")">>

UnknownAccount == <<"unknown account">>

\* parts = line.strip().split(';')
Parts(line) == Split(Strip(line), Sep)

\* faulty variant: the comparison keeps the case
CacheMatchExact(parts, domain) == Len(parts) >= 2 /\ parts[1] = domain

\* len(parts) >= 2 and parts[0].lower() == domain.lower()
CacheMatch(parts, domain) == Len(parts) >= 2 /\ Lower(parts[1]) = Lower(domain)

\* account = parts[2] if len(parts) > 2 else ...; return f"..."
CacheValue(parts, domain) ==
    Found(domain, parts[2], IF Len(parts) > 2 THEN parts[3] ELSE UnknownAccount)

\* for line in f
RECURSIVE ScanLines(_, _)
ScanLines(lines, domain) ==
    IF lines = <<>>
    THEN None
    ELSE IF CacheMatch(Parts(Head(lines)), domain)
         THEN Str(CacheValue(Parts(Head(lines)), domain))
         ELSE ScanLines(Tail(lines), domain)

\* phase 1: a missing file raises FileNotFoundError, an empty one makes next(f)
\* raise StopIteration; both are caught and the function goes on to phase 2
CacheLookup(file, domain) ==
    IF ~file.exists \/ file.lines = <<>>
    THEN None
    ELSE ScanLines(Tail(file.lines), domain)

\* faulty variant: only the '@' name counts
LookupFilterAtOnly(record, domain) == record.type = "A" /\ record.name = At

\* record['type'] == 'A' and (record['name'] == '@' or record['name'] == domain)
LookupFilter(record, domain) ==
    record.type = "A" /\ (record.name = At \/ record.name = domain)

\* for record in records: ... return f"..."
RECURSIVE FirstApex(_, _, _)
FirstApex(domain, records, account_name) ==
    IF records = <<>>
    THEN None
    ELSE IF LookupFilter(Head(records), domain)
         THEN Str(Found(domain, Head(records).content, AccountText(account_name)))
         ELSE FirstApex(domain, Tail(records), account_name)

\* faulty variant: domain.endswith(zone['name'])
ZoneMatchesSuffix(zone, domain) ==
    /\ Len(zone.name) <= Len(domain)
    /\ SubSeq(domain, Len(domain) - Len(zone.name) + 1, Len(domain)) = zone.name

\* if zone['name'] == domain
ZoneMatches(zone, domain) == zone.name = domain

\* for zone in zones
RECURSIVE ScanZones(_, _, _, _)
ScanZones(domain, zones, account_name, requests) ==
    IF zones = <<>>
    THEN [value |-> None, requests |-> requests]
    ELSE IF ZoneMatches(Head(zones), domain)
         THEN LET response == remoteRecords[Head(zones).id]
                  sent == Append(requests, RecordsRequest(account_name, Head(zones)))
                  hit == IF RecordsUsable(response)
                         THEN FirstApex(domain, response.result, account_name)
                         ELSE None
              IN  IF ~hit.none
                  THEN [value |-> hit, requests |-> sent]
                  ELSE ScanZones(domain, Tail(zones), account_name, sent)
         ELSE ScanZones(domain, Tail(zones), account_name, requests)

\* for account_name, account_data in api_configs.items()
RECURSIVE ScanAccounts(_, _, _)
ScanAccounts(domain, accounts, requests) ==
    IF accounts = <<>>
    THEN [value |-> None, requests |-> requests]
    ELSE LET listed == get_all_zones(Head(accounts))
             scan == ScanZones(domain, listed.zones, Head(accounts),
                               requests \o listed.requests)
         IN  IF ~scan.value.none
             THEN scan
             ELSE ScanAccounts(domain, Tail(accounts), scan.requests)

\* faulty variant: the accounts are scanned first, the file is read after a miss
get_domain_ip_live_first(domain, configs) ==
    LET live == ScanAccounts(domain, configs, <<>>)
    IN  IF ~live.value.none
        THEN live
        ELSE [value |-> CacheLookup(table, domain), requests |-> live.requests]

get_domain_ip(domain, configs) ==
    LET cached == CacheLookup(table, domain)
    IN  IF ~cached.none
        THEN [value |-> cached, requests |-> <<>>]
        ELSE ScanAccounts(domain, configs, <<>>)

---------------------------------------------------------------------------
(* The files *)

\* f.write("Domain;IP;Account\n")
HeaderLine == <<"Domain", Sep, "IP", Sep, "Account", NL>>

NoFile == [exists |-> FALSE, lines |-> <<>>]

\* faulty variant: the file is opened with 'a'
WriteResultsAppending(results) ==
    [exists |-> TRUE, lines |-> table.lines \o <<HeaderLine>> \o results]

\* with open(RESULTS_FILE, 'w') as f: f.write(header); f.writelines(all_results)
WriteResults(results) == [exists |-> TRUE, lines |-> <<HeaderLine>> \o results]

\* faulty variant: the file is opened with 'w'
AppendAuditTruncating(log, ip) == <<ip \o <<NL>>>>

\* with open(DOMAINS_FILE, 'a') as f: f.write(f"{ip}\n")
AppendAudit(log, ip) == Append(log, ip \o <<NL>>)

---------------------------------------------------------------------------
(* main: a lookup *)

NoLookup ==
    [made |-> FALSE, domain |-> <<>>, value |-> None, requests |-> <<>>, file |-> NoFile]

Accounts == {api_configs[i] : i \in 1..Len(api_configs)}

IdleWorker ==
    [pc |-> "idle", zones |-> <<>>, next |-> 1, account_results |-> <<>>,
     requests |-> <<>>]

\* ip = get_domain_ip(domain, api_configs); if ip: append it to the audit log
CheckDomain(domain, next_pc) ==
    LET got == get_domain_ip(domain, api_configs)
    IN  /\ lookup' = [made |-> TRUE, domain |-> domain, value |-> got.value,
                      requests |-> got.requests, file |-> table]
        /\ audit' = IF Truthy(got.value) THEN AppendAudit(audit, got.value.str) ELSE audit
        /\ pc' = next_pc
        /\ ops' = ops + 1
        /\ UNCHANGED <<api_configs, remotePages, remoteRecords, table, workers,
                       all_results, yielded, written>>

\* export_dns_records up to the submission of one task per account
SubmitAll ==
    /\ all_results' = <<>>
    /\ workers' = [a \in Accounts |-> [IdleWorker EXCEPT !.pc = "zones"]]
    /\ yielded' = {}
    /\ pc' = "export"
    /\ ops' = ops + 1
    /\ UNCHANGED <<api_configs, remotePages, remoteRecords, table, audit, lookup, written>>

\* if not api_configs: return
NoConfigs ==
    /\ pc = "start"
    /\ api_configs = <<>>
    /\ pc' = "exit"
    /\ UNCHANGED <<api_configs, remotePages, remoteRecords, table, audit, interactive,
                   ops, workers, all_results, yielded, lookup, written>>

\* python cf-management.py -d DOMAIN
StartDomain(domain) ==
    /\ pc = "start"
    /\ api_configs # <<>>
    /\ interactive' = FALSE
    /\ CheckDomain(domain, "exit")

\* python cf-management.py -u
StartUpdate ==
    /\ pc = "start"
    /\ api_configs # <<>>
    /\ interactive' = FALSE
    /\ SubmitAll

\* python cf-management.py
StartInteractive ==
    /\ pc = "start"
    /\ api_configs # <<>>
    /\ pc' = "menu"
    /\ interactive' = TRUE
    /\ UNCHANGED <<api_configs, remotePages, remoteRecords, table, audit, ops, workers,
                   all_results, yielded, lookup, written>>

\* choice == '1'
MenuDomain(domain) ==
    /\ pc = "menu"
    /\ ops < MaxOps
    /\ UNCHANGED interactive
    /\ CheckDomain(domain, "menu")

\* choice == '2'
MenuUpdate ==
    /\ pc = "menu"
    /\ ops < MaxOps
    /\ UNCHANGED interactive
    /\ SubmitAll

\* choice == '3'
MenuExit ==
    /\ pc = "menu"
    /\ pc' = "exit"
    /\ UNCHANGED <<api_configs, remotePages, remoteRecords, table, audit, interactive,
                   ops, workers, all_results, yielded, lookup, written>>

---------------------------------------------------------------------------
(* export_dns_records: the tasks of the pool and the collecting loop *)

WorkerStep(a, w) ==
    /\ workers' = [workers EXCEPT ![a] = w]
    /\ UNCHANGED <<api_configs, remotePages, remoteRecords, table, audit, pc,
                   interactive, ops, all_results, yielded, lookup, written>>

\* zones = get_all_zones(api_token)
WorkerListZones(a) ==
    /\ pc = "export"
    /\ workers[a].pc = "zones"
    /\ LET listed == get_all_zones(a)
       IN  WorkerStep(a, [workers[a] EXCEPT !.pc = "records",
                                            !.zones = listed.zones,
                                            !.requests = listed.requests])

\* one iteration of `for zone in zones`
WorkerFetchRecords(a) ==
    /\ pc = "export"
    /\ workers[a].pc = "records"
    /\ workers[a].next <= Len(workers[a].zones)
    /\ LET w == workers[a]
           zone == w.zones[w.next]
       IN  WorkerStep(a, [w EXCEPT
               !.next = w.next + 1,
               !.account_results = ProcessZone(w.account_results, zone, a),
               !.requests = Append(w.requests, RecordsRequest(a, zone))])

\* return account_results
WorkerReturn(a) ==
    /\ pc = "export"
    /\ workers[a].pc = "records"
    /\ workers[a].next > Len(workers[a].zones)
    /\ WorkerStep(a, [workers[a] EXCEPT !.pc = "done"])

\* faulty variant: the list is assigned, not extended
ExtendReplaces(results, account_results) == account_results

\* all_results.extend(account_results)
Extend(results, account_results) == results \o account_results

\* for future in as_completed(...): all_results.extend(future.result())
Collect(a) ==
    /\ pc = "export"
    /\ workers[a].pc = "done"
    /\ a \notin yielded
    /\ all_results' = Extend(all_results, workers[a].account_results)
    /\ yielded' = yielded \cup {a}
    /\ UNCHANGED <<api_configs, remotePages, remoteRecords, table, audit, pc,
                   interactive, ops, workers, lookup, written>>

\* faulty variant: the loop is left after the first future
FirstCollected == yielded # {}

\* as_completed is exhausted and the pool is shut down
AllCollected == yielded = Accounts

\* the write after the with block
WriteTable ==
    /\ pc = "export"
    /\ AllCollected
    /\ table' = WriteResults(all_results)
    /\ written' = Append(written, table')
    /\ pc' = IF interactive THEN "menu" ELSE "exit"
    /\ UNCHANGED <<api_configs, remotePages, remoteRecords, audit, interactive, ops,
                   workers, all_results, yielded, lookup>>

---------------------------------------------------------------------------
(* What the remote side and the files are drawn from *)

SubName(name) == <<"sub", ".">> \o name

ApexAt(ip) == DnsRecord("A", At, ip)
ApexNamed(name, ip) == DnsRecord("A", name, ip)
SubRecord(name) == DnsRecord("A", SubName(name), Ip2)
Quad == DnsRecord("AAAA", At, <<"::1">>)

RecordPool(name) == {ApexAt(Ip1), ApexNamed(name, Ip2), SubRecord(name), Quad}

RecordLists(name) == UNION {[1..k -> RecordPool(name)] : k \in 0..MaxRecords}

RecordResponses(name) ==
    {RecordsError, RecordsFailed} \cup {RecordsOk(records) : records \in RecordLists(name)}

PageLists(account_name) ==
    {<<>>} \cup {<<zone>> : zone \in ZonesOf(account_name)}
           \cup {pair \in ZonesOf(account_name) \X ZonesOf(account_name) :
                     pair[1] # pair[2]}

PageResponses(account_name) ==
    {PageError, PageFailed}
        \cup {PageOk(zones, info) : zones \in PageLists(account_name), info \in ResultInfos}

\* the lister stops at `response`, received for page `page`
Ends(response, page) ==
    \/ response.status = "error"
    \/ ~response.success
    \/ ~("total_pages" \in DOMAIN response.result_info)
    \/ response.result_info.total_pages <= page

\* the response sequences of at most MaxPages pages within which the lister stops
PageRuns(account_name) ==
    UNION {{run \in [1..n -> PageResponses(account_name)] : Ends(run[n], n)} :
               n \in 1..MaxPages}

Pages(n) == [total_pages |-> n]

\* one apex record per zone; the records of b2, the second zone of its account
\* with the name example.com, cannot be fetched
PlainRecords ==
    [id \in ZoneIds |-> IF id = "b2" THEN RecordsError ELSE RecordsOk(<<ApexAt(Ip1)>>)]

\* the rows an earlier export may have left in results.txt
StoredRows ==
    {ResultLine(ExampleCom, Ip2, "B2"), ResultLine(ExampleComUpper, Ip1, "A1"),
     ResultLine(SubExampleCom, Ip1, "B2")}

\* results.txt as an export of `rows` leaves it
StoredTable(rows) == [exists |-> TRUE, lines |-> <<HeaderLine>> \o rows]

\* no file, an empty file, and the tables of at most MaxRows rows
StoredTables ==
    {NoFile, [exists |-> TRUE, lines |-> <<>>]}
        \cup {StoredTable(rows) : rows \in UNION {[1..k -> StoredRows] : k \in 0..MaxRows}}

InitProgram ==
    /\ pc = "start"
    /\ interactive = FALSE
    /\ ops = 0
    /\ workers = [a \in Accounts |-> IdleWorker]
    /\ all_results = <<>>
    /\ yielded = {}
    /\ lookup = NoLookup
    /\ written = <<>>

\* one account, every run of page responses
InitZones ==
    /\ api_configs = <<"A1">>
    /\ remotePages \in [{"A1"} -> PageRuns("A1")]
    /\ remoteRecords = PlainRecords
    /\ table = NoFile
    /\ audit = <<>>
    /\ InitProgram

\* one account of two zones, every record response of the first zone
InitAccount ==
    /\ api_configs = <<"A1">>
    /\ remotePages \in
           [{"A1"} -> {<<PageOk(<<Zone("a1", ExampleCom), Zone("a2", SubExampleCom)>>, Pages(1))>>,
                       <<PageOk(<<Zone("a2", SubExampleCom)>>, Pages(2)),
                         PageOk(<<Zone("a1", ExampleCom)>>, Pages(2))>>}]
    /\ \E first \in RecordResponses(ExampleCom),
          second \in {RecordsError, RecordsOk(<<ApexAt(Ip1)>>),
                      RecordsOk(<<SubRecord(SubExampleCom)>>)} :
           remoteRecords = [PlainRecords EXCEPT !["a1"] = first, !["a2"] = second]
    /\ table = NoFile
    /\ audit = <<>>
    /\ InitProgram

ListingsA ==
    {<<PageError>>,
     <<PageOk(<<Zone("a1", ExampleCom)>>, Pages(1))>>,
     <<PageOk(<<Zone("a2", SubExampleCom)>>, Pages(2)),
       PageOk(<<Zone("a1", ExampleCom)>>, Pages(2))>>}

ListingsB ==
    {<<PageError>>,
     <<PageOk(<<Zone("b1", ExampleCom)>>, Pages(1))>>,
     <<PageOk(<<Zone("b2", ExampleCom), Zone("b1", ExampleCom)>>, NoInfo)>>}

\* two accounts, every stored table
InitLookup ==
    /\ api_configs = <<"A1", "B2">>
    /\ \E la \in ListingsA, lb \in ListingsB :
           remotePages = [a \in {"A1", "B2"} |-> IF a = "A1" THEN la ELSE lb]
    /\ \E ra \in {RecordsError, RecordsOk(<<ApexAt(Ip1)>>),
                  RecordsOk(<<SubRecord(ExampleCom)>>)},
          rb \in {RecordsFailed, RecordsOk(<<ApexNamed(ExampleCom, Ip2)>>),
                  RecordsOk(<<Quad, ApexAt(Ip2)>>)} :
           remoteRecords = [PlainRecords EXCEPT !["a1"] = ra, !["b1"] = rb]
    /\ table \in StoredTables
    /\ audit = <<>>
    /\ InitProgram

\* a row no export of the remote states below writes
StaleRow == ResultLine(SubExampleCom, Ip2, "B2")

\* a line an earlier run left in domains.txt
OldAuditLine == Found(SubExampleCom, Ip2, AccountText("B2")) \o <<NL>>

\* two accounts, failing and answering, over an absent or a stale table and an
\* empty or a used audit log
InitConfigured ==
    /\ api_configs = <<"A1", "B2">>
    /\ \E la \in ListingsA, lb \in ListingsB :
           remotePages = [a \in {"A1", "B2"} |-> IF a = "A1" THEN la ELSE lb]
    /\ \E ra \in {RecordsError, RecordsOk(<<ApexAt(Ip1)>>),
                  RecordsOk(<<ApexAt(Ip1), ApexNamed(ExampleCom, Ip2)>>)},
          rb \in {RecordsError, RecordsOk(<<ApexAt(Ip2)>>)} :
           remoteRecords = [PlainRecords EXCEPT !["a1"] = ra, !["b1"] = rb]
    /\ table \in {NoFile, StoredTable(<<StaleRow>>)}
    /\ audit \in {<<>>, <<OldAuditLine>>}

\* api_config.json is missing or holds no account
InitUnconfigured ==
    /\ api_configs = <<>>
    /\ remotePages = [a \in {"A1", "B2"} |-> <<PageError>>]
    /\ remoteRecords = PlainRecords
    /\ table = NoFile
    /\ audit = <<>>

Init == (InitConfigured \/ InitUnconfigured) /\ InitProgram

---------------------------------------------------------------------------
(* Specifications *)

Export ==
    \/ \E a \in Accounts : WorkerListZones(a)
    \/ \E a \in Accounts : WorkerFetchRecords(a)
    \/ \E a \in Accounts : WorkerReturn(a)
    \/ \E a \in Accounts : Collect(a)
    \/ WriteTable

Next ==
    \/ NoConfigs
    \/ \E domain \in Queries : StartDomain(domain)
    \/ StartUpdate
    \/ StartInteractive
    \/ \E domain \in Queries : MenuDomain(domain)
    \/ MenuUpdate
    \/ MenuExit
    \/ Export

\* runs in which only exports are asked for
NextExport ==
    \/ StartUpdate
    \/ StartInteractive
    \/ MenuUpdate
    \/ MenuExit
    \/ Export

\* runs in which only lookups are asked for
NextLookup ==
    \/ \E domain \in Queries : StartDomain(domain)
    \/ StartInteractive
    \/ \E domain \in Queries : MenuDomain(domain)
    \/ MenuExit

Spec == Init /\ [][Next]_vars

SpecZones == InitZones /\ [][NextExport]_vars

SpecAccount == InitAccount /\ [][NextExport]_vars

SpecLookup == InitLookup /\ [][NextLookup]_vars

---------------------------------------------------------------------------
(* What the claims speak of *)

Succeeded(response) == response.status = "ok" /\ response.success

\* the first page at which the lister has to stop
StopPage(run) == CHOOSE k \in 1..Len(run) : Ends(run[k], k) /\ \A j \in 1..(k - 1) : ~Ends(run[j], j)

RECURSIVE Flatten(_)
Flatten(seqs) == IF seqs = <<>> THEN <<>> ELSE Head(seqs) \o Flatten(Tail(seqs))

\* the zones of pages 1..StopPage, without the stopping page when it failed
ZonesOfRun(run) ==
    LET k == StopPage(run)
        last == IF Succeeded(run[k]) THEN k ELSE k - 1
    IN  Flatten([i \in 1..last |-> run[i].result])

ZoneRequests(requests) == SelectSeq(requests, LAMBDA r : r.url = "zones")

RecordRequests(requests) == SelectSeq(requests, LAMBDA r : r.url = "dns_records")

Listed(w) == w.pc \in {"records", "done"}

\* C1: once a task has listed its zones, it has requested pages 1, 2, ..., k in
\* that order, k the first page that fails or whose number reaches its
\* total_pages, and holds the zones of the successful pages among them, in order
C1_ZoneLister ==
    \A a \in Accounts :
        Listed(workers[a]) =>
            LET run == remotePages[a]
                asked == ZoneRequests(workers[a].requests)
            IN  /\ Len(asked) = StopPage(run)
                /\ \A i \in 1..Len(asked) : asked[i].page = i
                /\ workers[a].zones = ZonesOfRun(run)

\* page 1 announces two pages, page 2 fails after it: the zones of page 1 stay
C1_Witness ==
    /\ Listed(workers["A1"])
    /\ Len(remotePages["A1"]) = 2
    /\ Succeeded(remotePages["A1"][1])
    /\ remotePages["A1"][2] = PageError
    /\ Len(ZoneRequests(workers["A1"].requests)) = 2
    /\ workers["A1"].zones = remotePages["A1"][1].result
    /\ Len(workers["A1"].zones) = 2

IsApex(record, zone) == record.type = "A" /\ record.name \in {At, zone.name}

\* the (domain, ip, account) triples of one zone: those of its apex A-records
\* when its record request succeeded
TriplesOfZone(zone, account_name) ==
    LET response == remoteRecords[zone.id]
        apex == SelectSeq(response.result, LAMBDA record : IsApex(record, zone))
    IN  IF Succeeded(response)
        THEN [i \in 1..Len(apex) |-> <<zone.name, apex[i].content, AccountText(account_name)>>]
        ELSE <<>>

TriplesOfZones(zones, account_name) ==
    Flatten([i \in 1..Len(zones) |-> TriplesOfZone(zones[i], account_name)])

\* C2: the rows a finished task returns are, in order, one row per apex A-record
\* of each zone whose records were fetched, read back as (zone, content, account)
C2_AccountRows ==
    \A a \in Accounts :
        workers[a].pc = "done" =>
            LET rows == workers[a].account_results
                triples == TriplesOfZones(workers[a].zones, a)
            IN  /\ Len(rows) = Len(triples)
                /\ \A i \in 1..Len(rows) : Parts(rows[i]) = triples[i]

\* two apex records of example.com give two rows, the subdomain record of the
\* other zone gives none
C2_Witness ==
    /\ workers["A1"].pc = "done"
    /\ remoteRecords["a1"] = RecordsOk(<<ApexNamed(ExampleCom, Ip2), ApexAt(Ip1)>>)
    /\ remoteRecords["a2"] = RecordsOk(<<SubRecord(SubExampleCom)>>)
    /\ Len(workers["A1"].zones) = 2
    /\ workers["A1"].account_results =
           <<ResultLine(ExampleCom, Ip2, "A1"), ResultLine(ExampleCom, Ip1, "A1")>>

\* an export has returned and none is running
ExportDone == pc \in {"menu", "exit"} /\ written # <<>>

\* the lines after the header
DataRows(file) == IF file.lines = <<>> THEN <<>> ELSE Tail(file.lines)

Count(x, seq) == Cardinality({i \in 1..Len(seq) : seq[i] = x})

Range(seq) == {seq[i] : i \in 1..Len(seq)}

\* how often the tasks of accounts 1..n returned `row`
RECURSIVE Returned(_, _)
Returned(row, n) ==
    IF n = 0
    THEN 0
    ELSE Count(row, workers[api_configs[n]].account_results) + Returned(row, n - 1)

\* every account lists one zone on one page, and the zone has one apex A-record
OneApexEach ==
    \A a \in Accounts :
        /\ Len(remotePages[a]) = 1
        /\ Succeeded(remotePages[a][1])
        /\ Len(remotePages[a][1].result) = 1
        /\ LET zone == remotePages[a][1].result[1]
           IN  /\ Succeeded(remoteRecords[zone.id])
               /\ Len(remoteRecords[zone.id].result) = 1
               /\ IsApex(remoteRecords[zone.id].result[1], zone)

\* C3: after an export the data rows of the table hold every row exactly as often
\* as the tasks returned it, whatever the order the tasks ended in; two accounts
\* of one zone with one apex A-record each give two data rows, one per account
C3_ExportMerge ==
    ExportDone =>
        /\ \A row \in Range(DataRows(table))
                        \cup UNION {Range(workers[a].account_results) : a \in Accounts} :
               Count(row, DataRows(table)) = Returned(row, Len(api_configs))
        /\ OneApexEach =>
               /\ Len(DataRows(table)) = 2
               /\ \A a \in Accounts :
                      Count(AccountText(a),
                            [i \in 1..2 |-> Parts(DataRows(table)[i])[3]]) = 1

\* the second account's task ended first
C3_Witness ==
    /\ ExportDone
    /\ OneApexEach
    /\ DataRows(table) =
           <<ResultLine(ExampleCom, Ip2, "B2"), ResultLine(ExampleCom, Ip1, "A1")>>

\* the first request of the account fails, and with it all it sends
Failing(a) == ~Succeeded(remotePages[a][1])

\* the triples the remote state holds for an account
TriplesOfAccount(a) == TriplesOfZones(ZonesOfRun(remotePages[a]), a)

\* the data rows of an account, in file order
RowsOfAccount(file, a) ==
    SelectSeq(DataRows(file), LAMBDA row : Parts(row)[3] = AccountText(a))

C7_AfterExport ==
    ExportDone =>
        /\ table.lines[1] = HeaderLine
        /\ \A a \in Accounts :
               /\ workers[a].pc = "done"
               /\ Failing(a) => workers[a].account_results = <<>>
               /\ Len(RowsOfAccount(table, a)) = Len(TriplesOfAccount(a))
               /\ \A i \in 1..Len(TriplesOfAccount(a)) :
                      Parts(RowsOfAccount(table, a)[i]) = TriplesOfAccount(a)[i]

C7_WriteStep ==
    /\ table' # table => written' # written
    /\ written' # written =>
           /\ \A a \in Accounts : workers[a].pc = "done"
           /\ pc = "export" /\ pc' # "export"
           /\ written' = Append(written, table')

\* C7: the table is written in one step per export, taken only when the task of
\* every account has returned; after it the table is the header and, for every
\* account, the rows of its zones, none for an account whose requests fail
C7_FailureIsolation == [](C7_AfterExport) /\ [][C7_WriteStep]_vars

\* the first account fails, the rows of the second are in the table
C7_Witness ==
    /\ ExportDone
    /\ Failing("A1")
    /\ ~Failing("B2")
    /\ DataRows(table) = <<ResultLine(ExampleCom, Ip2, "B2")>>

\* C8: after an export the table is the header and the rows the export
\* collected, nothing more; the tables two exports of one run wrote have the same
\* header and the same rows, each as often
C8_Overwrite ==
    ExportDone =>
        /\ table = written[Len(written)]
        /\ table.exists
        /\ table.lines = <<HeaderLine>> \o all_results
        /\ StaleRow \notin Range(table.lines)
        /\ \A i, j \in 1..Len(written) :
               /\ written[i].lines[1] = written[j].lines[1]
               /\ \A row \in Range(written[i].lines) :
                      Count(row, written[i].lines) = Count(row, written[j].lines)

\* two exports wrote the same rows in different orders
C8_Witness ==
    /\ ExportDone
    /\ Len(written) = 2
    /\ written[1] # written[2]
    /\ Len(DataRows(table)) >= 2

\* a step of CheckDomain
LookupStep == ops' = ops + 1 /\ pc' # "export"

C9_Step ==
    /\ Len(audit') >= Len(audit)
    /\ SubSeq(audit', 1, Len(audit)) = audit
    /\ LookupStep =>
           /\ table' = table
           /\ IF lookup'.value.none
              THEN audit' = audit
              ELSE audit' = Append(audit, lookup'.value.str \o <<NL>>)
    /\ ~LookupStep => audit' = audit

\* C9: a lookup that returns a value appends that value as one line to the audit
\* log, a lookup that returns None appends nothing, no lookup changes the table,
\* no other step changes the audit log, and the lines the log has stay as they are
C9_Frames == [][C9_Step]_vars

\* after an export a lookup answered from the table, into a log that had a line
C9_Witness ==
    /\ written # <<>>
    /\ lookup.made /\ ~lookup.value.none /\ lookup.requests = <<>>
    /\ Len(audit) = 2
    /\ audit[1] = OldAuditLine

StoredNames == {ExampleCom, ExampleComUpper, SubExampleCom}

\* the (domain, ip, account) a data row was written from
FieldsOf(line) ==
    CHOOSE t \in StoredNames \X {Ip1, Ip2} \X {AccountText("A1"), AccountText("B2")} :
        line = t[1] \o <<Sep>> \o t[2] \o <<Sep>> \o t[3] \o <<NL>>

\* the data rows of the file whose domain is the query, the case of letters aside
MatchingRows(file, domain) ==
    {i \in 2..Len(file.lines) : Lower(FieldsOf(file.lines[i])[1]) = Lower(domain)}

CacheHit(file, domain) == file.exists /\ MatchingRows(file, domain) # {}

Least(S) == CHOOSE x \in S : \A y \in S : x <= y

\* C4: when the table the lookup read holds a data row of the queried domain,
\* the lookup returns the ip and account of such a row and sends no request
C4_CachePrecedence ==
    lookup.made /\ CacheHit(lookup.file, lookup.domain) =>
        /\ lookup.requests = <<>>
        /\ \E i \in MatchingRows(lookup.file, lookup.domain) :
               lookup.value =
                   Str(Found(lookup.domain, FieldsOf(lookup.file.lines[i])[2],
                             FieldsOf(lookup.file.lines[i])[3]))

\* the table says 2.2.2.2 in B2, the first account would answer 1.1.1.1
C4_Witness ==
    /\ lookup.made
    /\ lookup.domain = ExampleCom
    /\ lookup.file = StoredTable(<<ResultLine(ExampleCom, Ip2, "B2")>>)
    /\ remotePages["A1"] = <<PageOk(<<Zone("a1", ExampleCom)>>, Pages(1))>>
    /\ remoteRecords["a1"] = RecordsOk(<<ApexAt(Ip1)>>)
    /\ lookup.value = Str(Found(ExampleCom, Ip2, AccountText("B2")))
    /\ lookup.requests = <<>>

\* C5: the value of a lookup that read the table comes from the first data row,
\* in file order, whose domain equals the query up to the case of letters; the
\* header line is no such row: with no matching data row a value is a live one
C5_FirstCacheRow ==
    lookup.made /\ lookup.file.exists =>
        LET hits == MatchingRows(lookup.file, lookup.domain)
        IN  /\ hits # {} =>
                   lookup.value =
                       Str(Found(lookup.domain,
                                 FieldsOf(lookup.file.lines[Least(hits)])[2],
                                 FieldsOf(lookup.file.lines[Least(hits)])[3]))
            /\ hits = {} /\ ~lookup.value.none => lookup.requests # <<>>

\* Example.com is answered from the row of example.com, which comes first, not
\* from the row of Example.com after it
C5_Witness ==
    /\ lookup.made
    /\ lookup.domain = ExampleComUpper
    /\ lookup.file = StoredTable(<<ResultLine(ExampleCom, Ip2, "B2"),
                                   ResultLine(ExampleComUpper, Ip1, "A1")>>)
    /\ lookup.value = Str(Found(ExampleComUpper, Ip2, AccountText("B2")))

\* C6: every dns_records request of a lookup is for a zone whose name is the
\* queried domain, token for token, and a value found live is the content of a
\* record of such a zone, under the account the zone was listed for
C6_ExactZone ==
    lookup.made =>
        LET asked == RecordRequests(lookup.requests)
        IN  /\ \A i \in 1..Len(asked) : asked[i].zone.name = lookup.domain
            /\ lookup.requests # <<>> /\ ~lookup.value.none =>
                   \E i \in 1..Len(asked) :
                       \E record \in Range(remoteRecords[asked[i].zone.id].result) :
                           lookup.value =
                               Str(Found(lookup.domain, record.content,
                                         AccountText(asked[i].account)))

\* both accounts hold example.com with an apex record; sub.example.com lists
\* the zones of both, asks for no records and is not found
C6_Witness ==
    /\ lookup.made
    /\ lookup.domain = SubExampleCom
    /\ ~lookup.file.exists
    /\ remotePages["A1"] = <<PageOk(<<Zone("a1", ExampleCom)>>, Pages(1))>>
    /\ remotePages["B2"] = <<PageOk(<<Zone("b1", ExampleCom)>>, Pages(1))>>
    /\ remoteRecords["a1"] = RecordsOk(<<ApexAt(Ip1)>>)
    /\ lookup.requests = <<ZonesRequest("A1", 1), ZonesRequest("B2", 1)>>
    /\ lookup.value = None

\* (account, zone, record) positions, in configuration, listing and response
\* order, of the apex A-records of the zones named `domain`
LiveHits(domain) ==
    UNION {UNION {{<<ai, zi, ri>> :
                      ri \in {r \in 1..Len(remoteRecords[
                                  ZonesOfRun(remotePages[api_configs[ai]])[zi].id].result) :
                              LET zone == ZonesOfRun(remotePages[api_configs[ai]])[zi]
                                  response == remoteRecords[zone.id]
                              IN  /\ zone.name = domain
                                  /\ Succeeded(response)
                                  /\ IsApex(response.result[r], zone)}} :
                     zi \in 1..Len(ZonesOfRun(remotePages[api_configs[ai]]))} :
               ai \in 1..Len(api_configs)}

Before(s, t) ==
    \/ s[1] < t[1]
    \/ s[1] = t[1] /\ s[2] < t[2]
    \/ s[1] = t[1] /\ s[2] = t[2] /\ s[3] <= t[3]

FirstHit(domain) ==
    CHOOSE s \in LiveHits(domain) : \A t \in LiveHits(domain) : Before(s, t)

AccountIndex(account_name) ==
    CHOOSE i \in 1..Len(api_configs) : api_configs[i] = account_name

\* C10: a lookup that finds no row in the table returns the first apex A-record,
\* in configuration, listing and response order, of the zones named as the query
\* whose records could be fetched; it sends its requests account after account,
\* and returns None only when it has listed the zones of every account
C10_LiveFallback ==
    lookup.made /\ ~CacheHit(lookup.file, lookup.domain) =>
        /\ IF LiveHits(lookup.domain) = {}
           THEN /\ lookup.value = None
                /\ \A a \in Accounts :
                       \E i \in 1..Len(lookup.requests) :
                           lookup.requests[i] = ZonesRequest(a, 1)
           ELSE LET hit == FirstHit(lookup.domain)
                    a == api_configs[hit[1]]
                    zone == ZonesOfRun(remotePages[a])[hit[2]]
                IN  lookup.value =
                        Str(Found(lookup.domain,
                                  remoteRecords[zone.id].result[hit[3]].content,
                                  AccountText(a)))
        /\ \A i, j \in 1..Len(lookup.requests) :
               i <= j => AccountIndex(lookup.requests[i].account)
                             <= AccountIndex(lookup.requests[j].account)

\* the record request of the first account fails, the second account answers
C10_Witness ==
    /\ lookup.made
    /\ lookup.domain = ExampleCom
    /\ lookup.file = StoredTable(<<ResultLine(SubExampleCom, Ip1, "B2")>>)
    /\ remoteRecords["a1"] = RecordsError
    /\ remoteRecords["b1"] = RecordsOk(<<Quad, ApexAt(Ip2)>>)
    /\ Len(RecordRequests(lookup.requests)) = 2
    /\ lookup.value = Str(Found(ExampleCom, Ip2, AccountText("B2")))

====
